---- MODULE Spec2Model ----
(***************************************************************************)
(* A model of package goini (ini.go): the INI store, its line parser, its  *)
(* writer and the structural differ DiffINI.                               *)
(*                                                                         *)
(* A Go string / []byte is a sequence of one-character strings, so that    *)
(* splitting, trimming and searching are computed as the code computes     *)
(* them.  A Kvmap is a function from keys to values, a SectionMap a        *)
(* function from section names to Kvmaps.                                  *)
(***************************************************************************)
EXTENDS Integers, Sequences, FiniteSets, Bags, TLC

VARIABLES
    a,      \* the store under test
    b,      \* a second store, DiffINI's other argument
    ret,    \* what the last call returned
    hist,   \* "new": parseINI has not run on a; "parsed": it has, and Reset
            \* was not called since; "reset": Reset was called after it
    inp     \* SpecParse: the text and separators the Parse call is given

vars == <<a, b, ret, hist, inp>>

(***************************************************************************)
(* Bounds of the model.                                                    *)
(***************************************************************************)
\* Lines per input text of the parser specification SpecParse.
MaxLines == 3
\* Key/value pairs per store of the stores SpecRead, SpecWrite and SpecDiff
\* start from.
MaxPairs == 2

(***************************************************************************)
(* Strings.                                                                *)
(***************************************************************************)
DefaultSection == <<>>
DefaultLineSeparator == <<"\n">>
DefaultKeyValueSeparator == <<"=">>

\* unicode.IsSpace restricted to the characters of the model's alphabet.
IsSpace(c) == c \in {" ", "\t", "\n", "\r", "\f"}

RECURSIVE TrimLeftSpace(_)
TrimLeftSpace(s) ==
    IF Len(s) = 0 THEN s
    ELSE IF IsSpace(Head(s)) THEN TrimLeftSpace(Tail(s)) ELSE s

RECURSIVE TrimRightSpace(_)
TrimRightSpace(s) ==
    IF Len(s) = 0 THEN s
    ELSE IF IsSpace(s[Len(s)]) THEN TrimRightSpace(SubSeq(s, 1, Len(s) - 1)) ELSE s

\* bytes.TrimSpace
TrimSpace(s) == TrimRightSpace(TrimLeftSpace(s))

RECURSIVE TrimLeftSet(_, _)
TrimLeftSet(s, cutset) ==
    IF Len(s) = 0 THEN s
    ELSE IF Head(s) \in cutset THEN TrimLeftSet(Tail(s), cutset) ELSE s

RECURSIVE TrimRightSet(_, _)
TrimRightSet(s, cutset) ==
    IF Len(s) = 0 THEN s
    ELSE IF s[Len(s)] \in cutset
         THEN TrimRightSet(SubSeq(s, 1, Len(s) - 1), cutset) ELSE s

\* bytes.Trim(s, cutset)
Trim(s, cutset) == TrimRightSet(TrimLeftSet(s, cutset), cutset)

\* The cutset "'\"" of line 342.
QuoteChars == {"'", "\""}

\* The first position from i on (0-based) at which sep occurs in s, -1 if none.
RECURSIVE IndexFrom(_, _, _)
IndexFrom(s, sep, i) ==
    IF i + Len(sep) > Len(s) THEN -1
    ELSE IF SubSeq(s, i + 1, i + Len(sep)) = sep THEN i
    ELSE IndexFrom(s, sep, i + 1)

\* The last position up to i (0-based) at which sep occurs in s, -1 if none.
RECURSIVE IndexBack(_, _, _)
IndexBack(s, sep, i) ==
    IF i < 0 THEN -1
    ELSE IF SubSeq(s, i + 1, i + Len(sep)) = sep THEN i
    ELSE IndexBack(s, sep, i - 1)

LastIndex(s, sep) == IndexBack(s, sep, Len(s) - Len(sep))

\* bytes.Index: the 0-based position of the first occurrence, -1 if none.
Index(s, sep) == IndexFrom(s, sep, 0)

\* bytes.Split(s, sep): all pieces; an empty sep explodes s into characters.
RECURSIVE Split(_, _)
Split(s, sep) ==
    IF Len(sep) = 0 THEN [i \in 1..Len(s) |-> <<s[i]>>]
    ELSE LET i == Index(s, sep) IN
         IF i < 0 THEN <<s>>
         ELSE <<SubSeq(s, 1, i)>> \o Split(SubSeq(s, i + Len(sep) + 1, Len(s)), sep)

(***************************************************************************)
(* The store.                                                              *)
(***************************************************************************)
EmptyKvmap == <<>>

\* make(SectionMap)
EmptySectionMap == <<>>

\* kvmap[key] = value
KvPut(kvmap, key, value) == (key :> value) @@ kvmap

\* delete(kvmap, key)
KvDelete(kvmap, key) == [x \in (DOMAIN kvmap) \ {key} |-> kvmap[x]]

\* ini.sections[section] = kvmap
SecPut(sections, section, kvmap) == (section :> kvmap) @@ sections

New ==
    [sections     |-> EmptySectionMap,
     lineSep      |-> DefaultLineSeparator,
     kvSep        |-> DefaultKeyValueSeparator,
     parseSection |-> FALSE,
     skipCommits  |-> FALSE,
     trimQuotes   |-> FALSE]

(***************************************************************************)
(* parseINI.                                                               *)
(***************************************************************************)
IsCommentLine_Parenthesised(ini, line) ==
    ini.skipCommits /\ (line[1] = ";" \/ line[1] = "#")

\* line 320: ini.skipCommits && line[0] == ';' || line[0] == '#'
IsCommentLine(ini, line) ==
    (ini.skipCommits /\ line[1] = ";") \/ line[1] = "#"

IsSectionLine_Always(ini, line) == line[1] = "[" /\ line[Len(line)] = "]"

\* line 324
IsSectionLine(ini, line) ==
    ini.parseSection /\ line[1] = "[" /\ line[Len(line)] = "]"

\* lines 326-328: a header binds its name to a fresh empty mapping.
OpenSection_Merge(sections, section) ==
    IF section \in DOMAIN sections THEN sections
    ELSE SecPut(sections, section, EmptyKvmap)

OpenSection(sections, section) == SecPut(sections, section, EmptyKvmap)

\* lines 339-340
KeyOf(line, pos) == TrimSpace(SubSeq(line, 1, pos))

\* lines 340-343
ValueOf(ini, line, pos, kvSep) ==
    LET v == TrimSpace(SubSeq(line, pos + Len(kvSep) + 1, Len(line)))
    IN  IF ini.trimQuotes THEN Trim(v, QuoteChars) ELSE v

\* line 344: kvmap is the mapping bound to the current section.
StorePair(sections, section, k, v) ==
    SecPut(sections, section, KvPut(sections[section], k, v))

FormatError_StoreLine(ini, section, line) ==
    [ini |-> [ini EXCEPT !.sections = StorePair(@, section, line, <<>>)],
     err |-> TRUE, line |-> line]

\* lines 333-337: the store is returned as the lines before have left it.
FormatError(ini, section, line) == [ini |-> ini, err |-> TRUE, line |-> line]

\* lines 313-346: the loop over the lines, from line i on.  The result is the
\* store, whether the error of line 336 was returned, and the offending line.
RECURSIVE parseLines(_, _, _, _, _)
parseLines(ini, section, lines, i, kvSep) ==
    IF i > Len(lines) THEN [ini |-> ini, err |-> FALSE, line |-> <<>>]
    ELSE
      LET line == TrimSpace(lines[i]) IN
      IF Len(line) = 0 THEN parseLines(ini, section, lines, i + 1, kvSep)
      ELSE IF IsCommentLine(ini, line) THEN parseLines(ini, section, lines, i + 1, kvSep)
      ELSE IF IsSectionLine(ini, line)
      THEN LET name == SubSeq(line, 2, Len(line) - 1) IN
           parseLines([ini EXCEPT !.sections = OpenSection(@, name)],
                      name, lines, i + 1, kvSep)
      ELSE LET pos == Index(line, kvSep) IN
           IF pos < 0 THEN FormatError(ini, section, line)
           ELSE parseLines(
                  [ini EXCEPT !.sections =
                      StorePair(@, section, KeyOf(line, pos),
                                ValueOf(ini, line, pos, kvSep))],
                  section, lines, i + 1, kvSep)

parseINI_ClearOnError(ini, data, lineSep, kvSep) ==
    LET r == parseLines([ini EXCEPT !.lineSep = lineSep,
                                    !.kvSep = kvSep,
                                    !.sections = OpenSection(@, DefaultSection)],
                        DefaultSection, Split(data, lineSep), 1, kvSep)
    IN  IF r.err THEN [r EXCEPT !.ini.sections = EmptySectionMap] ELSE r

parseINI_SeparatorsOnSuccess(ini, data, lineSep, kvSep) ==
    LET r == parseLines([ini EXCEPT !.lineSep = lineSep,
                                    !.kvSep = kvSep,
                                    !.sections = OpenSection(@, DefaultSection)],
                        DefaultSection, Split(data, lineSep), 1, kvSep)
    IN  IF r.err THEN [r EXCEPT !.ini.lineSep = ini.lineSep, !.ini.kvSep = ini.kvSep] ELSE r

parseINI_KeepDefault(ini, data, lineSep, kvSep) ==
    parseLines([ini EXCEPT !.lineSep = lineSep,
                           !.kvSep = kvSep,
                           !.sections = OpenSection_Merge(@, DefaultSection)],
               DefaultSection, Split(data, lineSep), 1, kvSep)

\* lines 303-347
parseINI(ini, data, lineSep, kvSep) ==
    parseLines([ini EXCEPT !.lineSep = lineSep,
                           !.kvSep = kvSep,
                           !.sections = OpenSection(@, DefaultSection)],
               DefaultSection, Split(data, lineSep), 1, kvSep)

(***************************************************************************)
(* Accessors.                                                              *)
(***************************************************************************)
\* lines 122-127: a missing section is a nil map, whose lookup misses.
SectionGet(ini, section, key) ==
    IF section \in DOMAIN ini.sections /\ key \in DOMAIN ini.sections[section]
    THEN [value |-> ini.sections[section][key], ok |-> TRUE]
    ELSE [value |-> <<>>, ok |-> FALSE]

Get(ini, key) == SectionGet(ini, DefaultSection, key)

Digits == {"0", "1", "2", "3", "4", "5", "6", "7", "8", "9"}

DigitVal(c) ==
    CASE c = "0" -> 0 [] c = "1" -> 1 [] c = "2" -> 2 [] c = "3" -> 3
      [] c = "4" -> 4 [] c = "5" -> 5 [] c = "6" -> 6 [] c = "7" -> 7
      [] c = "8" -> 8 [] c = "9" -> 9

AllDigits(s) == \A i \in 1..Len(s) : s[i] \in Digits

RECURSIVE DecimalVal(_)
DecimalVal(s) ==
    IF Len(s) = 0 THEN 0
    ELSE 10 * DecimalVal(SubSeq(s, 1, Len(s) - 1)) + DigitVal(s[Len(s)])

HasSign(s) == Len(s) > 0 /\ s[1] \in {"+", "-"}

Unsigned(s) == IF HasSign(s) THEN Tail(s) ELSE s

Signed(s, n) == IF HasSign(s) /\ s[1] = "-" THEN 0 - n ELSE n

\* strconv.Atoi: an optional sign and at least one decimal digit.  The texts
\* of the model are too short to leave the range of int.
Atoi(s) ==
    IF Len(Unsigned(s)) > 0 /\ AllDigits(Unsigned(s))
    THEN [v |-> Signed(s, DecimalVal(Unsigned(s))), err |-> FALSE]
    ELSE [v |-> 0, err |-> TRUE]

\* strconv.ParseFloat(s, 64) on the model's alphabet, which has none of the
\* letters of an exponent, a hexadecimal mantissa, "inf" or "nan": an optional
\* sign, decimal digits and at most one point, with a digit on one side of
\* it.  A float64 is <<mantissa, number of fraction digits>>.
ParseFloat(s) ==
    LET u == Unsigned(s)
        p == Index(u, <<".">>)
        whole == IF p < 0 THEN u ELSE SubSeq(u, 1, p)
        frac == IF p < 0 THEN <<>> ELSE SubSeq(u, p + 2, Len(u))
    IN  IF Len(whole) + Len(frac) > 0 /\ AllDigits(whole) /\ AllDigits(frac)
        THEN [v |-> <<Signed(s, DecimalVal(whole \o frac)), Len(frac)>>, err |-> FALSE]
        ELSE [v |-> <<0, 0>>, err |-> TRUE]

\* lines 130-140
SectionGetInt(ini, section, key) ==
    LET g == SectionGet(ini, section, key) IN
    IF g.ok /\ ~Atoi(g.value).err
    THEN [value |-> Atoi(g.value).v, ok |-> TRUE]
    ELSE [value |-> 0, ok |-> g.ok]

GetInt(ini, key) == SectionGetInt(ini, DefaultSection, key)

\* lines 143-153
SectionGetFloat(ini, section, key) ==
    LET g == SectionGet(ini, section, key) IN
    IF g.ok /\ ~ParseFloat(g.value).err
    THEN [value |-> ParseFloat(g.value).v, ok |-> TRUE]
    ELSE [value |-> <<0, 0>>, ok |-> g.ok]

GetFloat(ini, key) == SectionGetFloat(ini, DefaultSection, key)

\* lines 174-177
GetKvmap(ini, section) ==
    IF section \in DOMAIN ini.sections
    THEN [kvmap |-> ini.sections[section], ok |-> TRUE]
    ELSE [kvmap |-> EmptyKvmap, ok |-> FALSE]

SectionSet_Replace(ini, section, key, value) ==
    [ini EXCEPT !.sections = SecPut(@, section, KvPut(EmptyKvmap, key, value))]

\* lines 232-239: a missing section is made first
SectionSet(ini, section, key, value) ==
    [ini EXCEPT !.sections =
        IF section \in DOMAIN @
        THEN SecPut(@, section, KvPut(@[section], key, value))
        ELSE SecPut(@, section, KvPut(EmptyKvmap, key, value))]

\* lines 186-188
Set(ini, key, value) == SectionSet(ini, DefaultSection, key, value)

Delete_DropEmpty(ini, section, key) ==
    IF section \in DOMAIN ini.sections
    THEN IF DOMAIN ini.sections[section] \subseteq {key}
         THEN [ini EXCEPT !.sections = [x \in (DOMAIN @) \ {section} |-> @[x]]]
         ELSE [ini EXCEPT !.sections[section] = KvDelete(@, key)]
    ELSE ini

\* lines 242-247
Delete(ini, section, key) ==
    IF GetKvmap(ini, section).ok
    THEN [ini EXCEPT !.sections[section] = KvDelete(@, key)]
    ELSE ini

\* lines 180-182
GetAll(ini) == ini.sections

Reset_New(ini) == New

\* lines 76-79
Reset(ini) == [ini EXCEPT !.sections = EmptySectionMap]

(***************************************************************************)
(* Map iteration: Go ranges over a map in an unspecified order.            *)
(***************************************************************************)
\* Every order in which the elements of S can be visited.
Orders(S) ==
    {p \in [1..Cardinality(S) -> S] : \A i, j \in 1..Cardinality(S) : p[i] = p[j] => i = j}

(***************************************************************************)
(* Write.                                                                  *)
(***************************************************************************)
WritePair_NoLineSep(ini, k, v) == k \o ini.kvSep \o v

\* lines 280-298: one pair
WritePair(ini, k, v) == k \o ini.kvSep \o v \o ini.lineSep

\* lines 279-299 with the keys ranged over in the order keys
RECURSIVE WriteKeys(_, _, _, _)
WriteKeys(ini, kv, keys, i) ==
    IF i > Len(keys) THEN <<>>
    ELSE WritePair(ini, keys[i], kv[keys[i]]) \o WriteKeys(ini, kv, keys, i + 1)

\* lines 278-301: every text write can produce for kv
write(ini, kv) == {WriteKeys(ini, kv, keys, 1) : keys \in Orders(DOMAIN kv)}

WriteHeader_Bare(ini, section) == section \o ini.lineSep

\* line 265
WriteHeader(ini, section) == <<"[">> \o section \o <<"]">> \o ini.lineSep

\* lines 261-273 with the sections ranged over in the order secs
RECURSIVE WriteSections(_, _, _)
WriteSections(ini, secs, i) ==
    IF i > Len(secs) THEN {<<>>}
    ELSE IF secs[i] = DefaultSection THEN WriteSections(ini, secs, i + 1)
    ELSE {WriteHeader(ini, secs[i]) \o body \o rest :
              body \in write(ini, ini.sections[secs[i]]),
              rest \in WriteSections(ini, secs, i + 1)}

\* lines 250-275: every text a successful Write can produce
Write(ini) ==
    {first \o rest :
        first \in (IF GetKvmap(ini, DefaultSection).ok
                   THEN write(ini, GetKvmap(ini, DefaultSection).kvmap)
                   ELSE {<<>>}),
        rest \in UNION {WriteSections(ini, secs, 1) : secs \in Orders(DOMAIN ini.sections)}}

(***************************************************************************)
(* DiffINI.                                                                *)
(***************************************************************************)
DIFF_SECTION_ONLY_IN_A == 0
DIFF_KEY_ONLY_IN_A == 1
DIFF_VALUES_DIFFER == 2
DIFF_SECTION_ONLY_IN_B == 3
DIFF_KEY_ONLY_IN_B == 4

\* lines 357-363; a field left out of a literal is the empty string
DiffResult(state, section, key, aval, bval) ==
    [State |-> state, Section |-> section, Key |-> key, AVal |-> aval, BVal |-> bval]

DiffKeyA_NoCompare(x, y, section, akey) ==
    IF akey \notin DOMAIN y.sections[section]
    THEN <<DiffResult(DIFF_KEY_ONLY_IN_A, section, akey, x.sections[section][akey], <<>>)>>
    ELSE <<DiffResult(DIFF_VALUES_DIFFER, section, akey,
                      x.sections[section][akey], y.sections[section][akey])>>

\* lines 382-405: the records of one key of a section both stores have
DiffKeyA(x, y, section, akey) ==
    IF akey \notin DOMAIN y.sections[section]
    THEN <<DiffResult(DIFF_KEY_ONLY_IN_A, section, akey, x.sections[section][akey], <<>>)>>
    ELSE IF x.sections[section][akey] # y.sections[section][akey]
    THEN <<DiffResult(DIFF_VALUES_DIFFER, section, akey,
                      x.sections[section][akey], y.sections[section][akey])>>
    ELSE <<>>

DiffKeyB_Repeat(x, y, section, bkey) ==
    IF bkey \notin DOMAIN x.sections[section]
    THEN <<DiffResult(DIFF_KEY_ONLY_IN_B, section, bkey, <<>>, y.sections[section][bkey])>>
    ELSE IF x.sections[section][bkey] # y.sections[section][bkey]
    THEN <<DiffResult(DIFF_VALUES_DIFFER, section, bkey,
                      x.sections[section][bkey], y.sections[section][bkey])>>
    ELSE <<>>

\* lines 420-434
DiffKeyB(x, y, section, bkey) ==
    IF bkey \notin DOMAIN x.sections[section]
    THEN <<DiffResult(DIFF_KEY_ONLY_IN_B, section, bkey, <<>>, y.sections[section][bkey])>>
    ELSE <<>>

RECURSIVE DiffKeysA(_, _, _, _, _)
DiffKeysA(x, y, section, keys, i) ==
    IF i > Len(keys) THEN <<>>
    ELSE DiffKeyA(x, y, section, keys[i]) \o DiffKeysA(x, y, section, keys, i + 1)

RECURSIVE DiffKeysB(_, _, _, _, _)
DiffKeysB(x, y, section, keys, i) ==
    IF i > Len(keys) THEN <<>>
    ELSE DiffKeyB(x, y, section, keys[i]) \o DiffKeysB(x, y, section, keys, i + 1)

DiffSectionA_IgnoreEmpty(x, y, section) ==
    IF section \notin DOMAIN y.sections
    THEN IF x.sections[section] = EmptyKvmap THEN {<<>>}
         ELSE {<<DiffResult(DIFF_SECTION_ONLY_IN_A, section, <<>>, <<>>, <<>>)>>}
    ELSE {DiffKeysA(x, y, section, keys, 1) : keys \in Orders(DOMAIN x.sections[section])}

\* lines 371-406: what one section of a can append
DiffSectionA(x, y, section) ==
    IF section \notin DOMAIN y.sections
    THEN {<<DiffResult(DIFF_SECTION_ONLY_IN_A, section, <<>>, <<>>, <<>>)>>}
    ELSE {DiffKeysA(x, y, section, keys, 1) : keys \in Orders(DOMAIN x.sections[section])}

DiffSectionB_Silent(x, y, section) ==
    IF section \notin DOMAIN x.sections
    THEN {<<>>}
    ELSE {DiffKeysB(x, y, section, keys, 1) : keys \in Orders(DOMAIN y.sections[section])}

\* lines 409-435: what one section of b can append
DiffSectionB(x, y, section) ==
    IF section \notin DOMAIN x.sections
    THEN {<<DiffResult(DIFF_SECTION_ONLY_IN_B, section, <<>>, <<>>, <<>>)>>}
    ELSE {DiffKeysB(x, y, section, keys, 1) : keys \in Orders(DOMAIN y.sections[section])}

RECURSIVE DiffPassA(_, _, _, _)
DiffPassA(x, y, secs, i) ==
    IF i > Len(secs) THEN {<<>>}
    ELSE {r \o rest : r \in DiffSectionA(x, y, secs[i]), rest \in DiffPassA(x, y, secs, i + 1)}

RECURSIVE DiffPassB(_, _, _, _)
DiffPassB(x, y, secs, i) ==
    IF i > Len(secs) THEN {<<>>}
    ELSE {r \o rest : r \in DiffSectionB(x, y, secs[i]), rest \in DiffPassB(x, y, secs, i + 1)}

\* lines 368-438: every list DiffINI(x, y) can return
DiffINI(x, y) ==
    {ra \o rb :
        ra \in UNION {DiffPassA(x, y, secs, 1) : secs \in Orders(DOMAIN x.sections)},
        rb \in UNION {DiffPassB(x, y, secs, 1) : secs \in Orders(DOMAIN y.sections)}}

(***************************************************************************)
(* The store life-cycle: one store a on which a caller runs the package's  *)
(* operations in any order; b is a second, newly constructed store.        *)
(* ret is what the last call returned.                                     *)
(***************************************************************************)
SecS == <<"s">>
KeyK == <<"k">>
KeyJ == <<"j">>
Val42 == <<"4", "2">>
ValAbc == <<"a", "b", "c">>

Sections == {DefaultSection, SecS}
Keys == {KeyK, KeyJ}
Values == {Val42, ValAbc}

\* The separator pairs a caller passes to Parse and ParseFrom.
Separators ==
    {[lineSep |-> DefaultLineSeparator, kvSep |-> DefaultKeyValueSeparator],
     [lineSep |-> <<"|">>, kvSep |-> <<":">>]}

\* strings.Join
RECURSIVE Join(_, _)
Join(lines, sep) ==
    IF Len(lines) = 0 THEN <<>>
    ELSE IF Len(lines) = 1 THEN lines[1]
    ELSE lines[1] \o sep \o Join(Tail(lines), sep)

\* The texts of at most n lines drawn from lineSet, joined by lineSep.
Texts(lineSet, n, lineSep) ==
    {Join(ls, lineSep) : ls \in UNION {[1..m -> lineSet] : m \in 0..n}}

\* The texts given to the store a: nothing, a pair, a header and a pair, a
\* pair and a line with no separator.
CoreTexts(sep) ==
    LET pair == KeyK \o sep.kvSep \o Val42
        header == <<"[">> \o SecS \o <<"]">>
        bad == <<"b", "a", "d">>
    IN  {<<>>,
         pair,
         Join(<<header, pair>>, sep.lineSep),
         Join(<<pair, bad>>, sep.lineSep)}

\* The arguments of a Parse or ParseFrom call.
ParseArgs ==
    UNION {{[data |-> data, lineSep |-> sep.lineSep, kvSep |-> sep.kvSep] :
               data \in CoreTexts(sep)} : sep \in Separators}

\* The contents of the file ParseFile reads.
FileTexts ==
    CoreTexts([lineSep |-> DefaultLineSeparator, kvSep |-> DefaultKeyValueSeparator])
    \cup {<<";", "c", "\n", "k", "=", "4", "2">>}

NoInput == [data |-> <<>>, lineSep |-> <<>>, kvSep |-> <<>>]

Init ==
    /\ a = New
    /\ b = New
    /\ ret = [op |-> "New"]
    /\ hist = "new"
    /\ inp = NoInput

\* parseINI on the store a
ParseStep(op, data, lineSep, kvSep) ==
    LET r == parseINI(a, data, lineSep, kvSep) IN
    /\ a' = r.ini
    /\ ret' = [op |-> op, err |-> r.err, io |-> FALSE, lineSep |-> lineSep, kvSep |-> kvSep]
    /\ hist' = "parsed"
    /\ UNCHANGED <<b, inp>>

\* lines 61-63
Parse ==
    \E arg \in ParseArgs : ParseStep("Parse", arg.data, arg.lineSep, arg.kvSep)

\* lines 67-73: the reader hands over its data, or fails
ParseFrom ==
    \/ \E arg \in ParseArgs : ParseStep("ParseFrom", arg.data, arg.lineSep, arg.kvSep)
    \/ /\ ret' = [op |-> "ParseFrom", err |-> TRUE, io |-> TRUE]
       /\ UNCHANGED <<a, b, hist, inp>>

ParseFile_KeepFlags ==
    \/ \E data \in FileTexts :
           LET r == parseINI(a, data, DefaultLineSeparator, DefaultKeyValueSeparator) IN
           /\ a' = r.ini
           /\ ret' = [op |-> "ParseFile", err |-> r.err, io |-> FALSE]
           /\ hist' = "parsed"
           /\ UNCHANGED <<b, inp>>
    \/ /\ ret' = [op |-> "ParseFile", err |-> TRUE, io |-> TRUE]
       /\ UNCHANGED <<a, b, hist, inp>>

\* lines 49-57: the file is read, or the read fails
ParseFile ==
    \/ \E data \in FileTexts :
           LET r == parseINI([a EXCEPT !.parseSection = TRUE, !.skipCommits = TRUE],
                             data, DefaultLineSeparator, DefaultKeyValueSeparator) IN
           /\ a' = r.ini
           /\ ret' = [op |-> "ParseFile", err |-> r.err, io |-> FALSE]
           /\ hist' = "parsed"
           /\ UNCHANGED <<b, inp>>
    \/ /\ ret' = [op |-> "ParseFile", err |-> TRUE, io |-> TRUE]
       /\ UNCHANGED <<a, b, hist, inp>>

ResetOp ==
    /\ a' = Reset(a)
    /\ ret' = [op |-> "Reset"]
    /\ hist' = IF hist = "new" THEN "new" ELSE "reset"
    /\ UNCHANGED <<b, inp>>

\* lines 82-84
SetSkipCommits ==
    \E v \in BOOLEAN :
        /\ a' = [a EXCEPT !.skipCommits = v]
        /\ ret' = [op |-> "SetSkipCommits"]
        /\ UNCHANGED <<b, hist, inp>>

\* lines 87-89
SetParseSection ==
    \E v \in BOOLEAN :
        /\ a' = [a EXCEPT !.parseSection = v]
        /\ ret' = [op |-> "SetParseSection"]
        /\ UNCHANGED <<b, hist, inp>>

\* lines 92-94
SetTrimQuotes ==
    \E v \in BOOLEAN :
        /\ a' = [a EXCEPT !.trimQuotes = v]
        /\ ret' = [op |-> "SetTrimQuotes"]
        /\ UNCHANGED <<b, hist, inp>>

\* lines 186-188
SetOp ==
    \E key \in Keys, value \in Values :
        /\ a' = Set(a, key, value)
        /\ ret' = [op |-> "Set", section |-> DefaultSection, key |-> key, value |-> value]
        /\ UNCHANGED <<b, hist, inp>>

\* lines 232-239
SectionSetOp ==
    \E section \in Sections, key \in Keys, value \in Values :
        /\ a' = SectionSet(a, section, key, value)
        /\ ret' = [op |-> "SectionSet", section |-> section, key |-> key, value |-> value]
        /\ UNCHANGED <<b, hist, inp>>

DeleteOp ==
    \E section \in Sections, key \in Keys :
        /\ a' = Delete(a, section, key)
        /\ ret' = [op |-> "Delete", section |-> section, key |-> key]
        /\ UNCHANGED <<b, hist, inp>>

Next ==
    \/ Parse
    \/ ParseFrom
    \/ ParseFile
    \/ ResetOp
    \/ SetSkipCommits
    \/ SetParseSection
    \/ SetTrimQuotes
    \/ SetOp
    \/ SectionSetOp
    \/ DeleteOp

Spec == Init /\ [][Next]_vars

HasDefault(ini) == DefaultSection \in DOMAIN ini.sections

(***************************************************************************)
(* C2.  As claimed: once a parse has run on the store (whether it          *)
(* succeeded or failed with a format error), the store contains the        *)
(* default section, whatever Set, Delete, Reset, Write and parse calls     *)
(* follow.                                                                 *)
(***************************************************************************)
C2_DefaultSectionOnceParsed == hist # "new" => HasDefault(a)

(***************************************************************************)
(* C2, amended.  Once a parse has run on the store, the store contains the *)
(* default section for as long as Reset is not called after the most       *)
(* recent parse.                                                           *)
(***************************************************************************)
C2_DefaultSectionUntilReset == hist = "parsed" => HasDefault(a)

\* A format error left the default section in place, and so did the
\* Delete that emptied it.
C2_Witness ==
    /\ hist = "parsed"
    /\ ret.op = "Delete"
    /\ ret.section = DefaultSection
    /\ HasDefault(a)
    /\ a.sections[DefaultSection] = EmptyKvmap

(***************************************************************************)
(* C10.  A section name present in the store stays present across every    *)
(* call but Reset.  A Delete that removes the last key of a section leaves *)
(* the section present and empty (GetKvmap finds it); a Delete on an       *)
(* absent section or an absent key changes nothing.                        *)
(***************************************************************************)
C10_SectionsPersistUntilReset ==
    [][/\ ret'.op # "Reset" => DOMAIN a.sections \subseteq DOMAIN a'.sections
       /\ ret'.op = "Delete" =>
            IF ret'.section \in DOMAIN a.sections
               /\ ret'.key \in DOMAIN a.sections[ret'.section]
            THEN DOMAIN a.sections[ret'.section] = {ret'.key} =>
                    /\ GetKvmap(a', ret'.section).ok
                    /\ GetKvmap(a', ret'.section).kvmap = EmptyKvmap
            ELSE a' = a]_vars

\* A Delete has left a section present and empty.
C10_Witness ==
    /\ ret.op = "Delete"
    /\ ret.section = SecS
    /\ GetKvmap(a, SecS).ok
    /\ GetKvmap(a, SecS).kvmap = EmptyKvmap

(***************************************************************************)
(* Stores to start from.  Every section map is one a caller can build with *)
(* SectionSet and Delete (and, for the separators, a Parse and a Reset).   *)
(***************************************************************************)
\* The section maps over names with at most n pairs, drawn from keys and
\* values; a section may be present and empty.
SectionMaps(names, keys, values, n) ==
    UNION {{[sec \in present |-> [k \in {x \in keys : <<sec, x>> \in slots} |-> val[<<sec, k>>]]] :
               present \in {S \in SUBSET names : \A p \in slots : p[1] \in S},
               val \in [slots -> values]} :
           slots \in {P \in SUBSET (names \X keys) : Cardinality(P) <= n}}

StoresOver(maps, seps) ==
    {[New EXCEPT !.sections = m, !.lineSep = sep.lineSep, !.kvSep = sep.kvSep] :
        m \in maps, sep \in seps}

(***************************************************************************)
(* SpecRead: the getters on every store of ReadStores.                     *)
(***************************************************************************)
ValNeg7 == <<"-", "7">>
Val1p5 == <<"1", ".", "5">>

ReadValues == {Val42, ValAbc, ValNeg7, Val1p5}

ReadStores ==
    StoresOver(SectionMaps(Sections, Keys, ReadValues, MaxPairs),
               {[lineSep |-> DefaultLineSeparator, kvSep |-> DefaultKeyValueSeparator]})

InitRead ==
    /\ a \in ReadStores
    /\ b = New
    /\ ret = [op |-> "New"]
    /\ hist = "new"
    /\ inp = NoInput

\* lines 98-100 and 122-127
SectionGetOp ==
    \/ \E section \in Sections, key \in Keys :
        /\ ret' = [op |-> "SectionGet", section |-> section, key |-> key,
                   value |-> SectionGet(a, section, key).value,
                   ok |-> SectionGet(a, section, key).ok]
        /\ UNCHANGED <<a, b, hist, inp>>
    \/ \E key \in Keys :
        /\ ret' = [op |-> "Get", section |-> DefaultSection, key |-> key,
                   value |-> Get(a, key).value, ok |-> Get(a, key).ok]
        /\ UNCHANGED <<a, b, hist, inp>>

\* lines 103-105 and 130-140
SectionGetIntOp ==
    \/ \E section \in Sections, key \in Keys :
        /\ ret' = [op |-> "SectionGetInt", section |-> section, key |-> key,
                   value |-> SectionGetInt(a, section, key).value,
                   ok |-> SectionGetInt(a, section, key).ok]
        /\ UNCHANGED <<a, b, hist, inp>>
    \/ \E key \in Keys :
        /\ ret' = [op |-> "GetInt", section |-> DefaultSection, key |-> key,
                   value |-> GetInt(a, key).value, ok |-> GetInt(a, key).ok]
        /\ UNCHANGED <<a, b, hist, inp>>

\* lines 108-110 and 143-153
SectionGetFloatOp ==
    \/ \E section \in Sections, key \in Keys :
        /\ ret' = [op |-> "SectionGetFloat", section |-> section, key |-> key,
                   value |-> SectionGetFloat(a, section, key).value,
                   ok |-> SectionGetFloat(a, section, key).ok]
        /\ UNCHANGED <<a, b, hist, inp>>
    \/ \E key \in Keys :
        /\ ret' = [op |-> "GetFloat", section |-> DefaultSection, key |-> key,
                   value |-> GetFloat(a, key).value, ok |-> GetFloat(a, key).ok]
        /\ UNCHANGED <<a, b, hist, inp>>

GetKvmapOp ==
    \E section \in Sections :
        /\ ret' = [op |-> "GetKvmap", section |-> section,
                   kvmap |-> GetKvmap(a, section).kvmap, ok |-> GetKvmap(a, section).ok]
        /\ UNCHANGED <<a, b, hist, inp>>

NextRead ==
    \/ SectionGetOp
    \/ SectionGetIntOp
    \/ SectionGetFloatOp
    \/ GetKvmapOp

SpecRead == InitRead /\ [][NextRead]_vars

(***************************************************************************)
(* C1.  The integer and floating-point getters report found = true exactly *)
(* when the key is stored and its text converts to the requested type, and *)
(* return the zero value together with found = false when it is stored but *)
(* does not convert.                                                       *)
(***************************************************************************)
C1_ConversionFailureIsNotFound ==
    ret.op \in {"SectionGetInt", "GetInt", "SectionGetFloat", "GetFloat"} =>
        LET g == SectionGet(a, ret.section, ret.key)
            int == ret.op \in {"SectionGetInt", "GetInt"}
            converts == IF int THEN ~Atoi(g.value).err ELSE ~ParseFloat(g.value).err
            zero == IF int THEN 0 ELSE <<0, 0>>
        IN  /\ ret.ok <=> (g.ok /\ converts)
            /\ ~ret.ok => ret.value = zero

(***************************************************************************)
(* SpecParse: one Parse call, on every text of at most MaxLines lines and  *)
(* every setting of the flags, on a new store and on a store that holds a  *)
(* pair in the default section and one in section s.                       *)
(***************************************************************************)
ParseLineSet ==
    {<<"k", "=", "1">>,
     <<" ", "k", " ", "=", " ", "2", "=", "3", " ">>,
     <<"j", "=", "'", "1", "'">>,
     <<"[", "s", "]">>,
     <<"[", "]">>,
     <<"[", "k", "=", "1", "]">>,
     <<"b", "a", "d">>,
     <<" ", "#", "c", "=", "1">>,
     <<";", "c">>,
     <<";", "c", "=", "1">>,
     <<" ">>}

ParseTexts == Texts(ParseLineSet, MaxLines, DefaultLineSeparator)

Val9 == <<"9">>

ParseSectionMaps ==
    {EmptySectionMap,
     (DefaultSection :> (KeyK :> Val9)) @@ (SecS :> (KeyJ :> Val9))}

ParseStores ==
    {[New EXCEPT !.sections = m, !.parseSection = ps, !.skipCommits = sc, !.trimQuotes = tq] :
        m \in ParseSectionMaps, ps \in BOOLEAN, sc \in BOOLEAN, tq \in BOOLEAN}

InitParse ==
    /\ a \in ParseStores
    /\ b = New
    /\ ret = [op |-> "New"]
    /\ hist = "new"
    /\ inp \in {[data |-> data, lineSep |-> DefaultLineSeparator,
                 kvSep |-> DefaultKeyValueSeparator] : data \in ParseTexts}

\* lines 61-63, on the given text
ParseInput ==
    /\ hist = "new"
    /\ ParseStep("Parse", inp.data, inp.lineSep, inp.kvSep)

NextParse == ParseInput

SpecParse == InitParse /\ [][NextParse]_vars

(***************************************************************************)
(* What the text says, line by line, stated without the parser: the lines  *)
(* of the input, what each one is, and the section and pair it names.  L   *)
(* is the sequence of the lines, each with its surrounding whitespace      *)
(* removed.                                                                *)
(***************************************************************************)
InLines == Split(inp.data, inp.lineSep)

Trimmed(lines) == [i \in 1..Len(lines) |-> TrimSpace(lines[i])]

SepAt(s, sep, p) == p + Len(sep) <= Len(s) /\ SubSeq(s, p + 1, p + Len(sep)) = sep

SepPositions(s, sep) == {p \in 0..Len(s) : SepAt(s, sep, p)}

FirstSep(s, sep) == CHOOSE p \in SepPositions(s, sep) : \A q \in SepPositions(s, sep) : p <= q

IsBlank(L, i) == L[i] = <<>>

IsComment(L, i) ==
    /\ ~IsBlank(L, i)
    /\ Head(L[i]) = "#" \/ (a.skipCommits /\ Head(L[i]) = ";")

IsHeader(L, i) ==
    /\ ~IsBlank(L, i) /\ ~IsComment(L, i)
    /\ a.parseSection
    /\ Head(L[i]) = "[" /\ L[i][Len(L[i])] = "]"

IsPair(L, i) ==
    /\ ~IsBlank(L, i) /\ ~IsComment(L, i) /\ ~IsHeader(L, i)
    /\ SepPositions(L[i], inp.kvSep) # {}

IsMalformed(L, i) ==
    /\ ~IsBlank(L, i) /\ ~IsComment(L, i) /\ ~IsHeader(L, i)
    /\ SepPositions(L[i], inp.kvSep) = {}

HeaderName(L, i) == SubSeq(L[i], 2, Len(L[i]) - 1)

HeadersBefore(L, i) == {h \in 1..(i - 1) : IsHeader(L, h)}

LastHeaderBefore(L, i) == CHOOSE h \in HeadersBefore(L, i) : \A g \in HeadersBefore(L, i) : g <= h

SectionOf(L, i) ==
    IF HeadersBefore(L, i) = {} THEN DefaultSection ELSE HeaderName(L, LastHeaderBefore(L, i))

PairKey(L, i) == TrimSpace(SubSeq(L[i], 1, FirstSep(L[i], inp.kvSep)))

PairValue(L, i) ==
    TrimSpace(SubSeq(L[i], FirstSep(L[i], inp.kvSep) + Len(inp.kvSep) + 1, Len(L[i])))

PairLines(L) == {i \in 1..Len(L) : IsPair(L, i)}

SamePair(L, i) ==
    {j \in PairLines(L) : SectionOf(L, j) = SectionOf(L, i) /\ PairKey(L, j) = PairKey(L, i)}

LastSamePair(L, i) == CHOOSE j \in SamePair(L, i) : \A g \in SamePair(L, i) : g <= j

HeaderRepeatedAfter(L, i) ==
    \E h \in (i + 1)..Len(L) : IsHeader(L, h) /\ HeaderName(L, h) = SectionOf(L, i)

Stored(ini, section, key, value) ==
    /\ section \in DOMAIN ini.sections
    /\ key \in DOMAIN ini.sections[section]
    /\ ini.sections[section][key] = value

ParsedOk == hist = "new" /\ hist' = "parsed" /\ ~ret'.err

\* C4 as stated: after a successful Parse with section parsing enabled,
\* every key/value line's key is found in the section named by the most
\* recent header before it (the default section if there is none), with the
\* whitespace-trimmed text after the first separator of the last line having
\* that key in that section as its value.
C4_EveryPairInItsSection ==
    [][ParsedOk /\ a.parseSection =>
        LET L == Trimmed(InLines)
        IN  \A i \in PairLines(L) :
                Stored(a', SectionOf(L, i), PairKey(L, i), PairValue(L, LastSamePair(L, i)))]_vars

\* C4, amended: the same for every key/value line that no later header
\* naming its section follows, the value being stripped of surrounding quote
\* characters as well when quote trimming is enabled.
C4_SurvivingPairInItsSection ==
    [][ParsedOk /\ a.parseSection =>
        LET L == Trimmed(InLines)
        IN  \A i \in PairLines(L) :
                ~HeaderRepeatedAfter(L, i) =>
                    Stored(a', SectionOf(L, i), PairKey(L, i),
                           IF a.trimQuotes
                           THEN Trim(PairValue(L, LastSamePair(L, i)), QuoteChars)
                           ELSE PairValue(L, LastSamePair(L, i)))]_vars

C4_Witness ==
    /\ hist = "parsed" /\ ~ret.err /\ a.parseSection /\ a.trimQuotes
    /\ Len(InLines) = 3
    /\ Stored(a, DefaultSection, KeyK, <<"2", "=", "3">>)
    /\ Stored(a, SecS, KeyJ, <<"1">>)

MalformedLines(L) == {i \in 1..Len(L) : IsMalformed(L, i)}

FirstMalformed(L) == CHOOSE i \in MalformedLines(L) : \A j \in MalformedLines(L) : i <= j

\* C5: Parse fails exactly when some line is neither blank, comment nor
\* header and lacks the separator; it then leaves the store as a successful
\* Parse of the lines before the first such line leaves it.
C5_ErrorKeepsPrefix ==
    [][hist = "new" /\ hist' = "parsed" =>
        LET lines == InLines
            L == Trimmed(lines)
        IN  /\ ret'.err <=> MalformedLines(L) # {}
            /\ ret'.err =>
                LET before == parseINI(a, Join(SubSeq(lines, 1, FirstMalformed(L) - 1), inp.lineSep),
                                       inp.lineSep, inp.kvSep)
                IN  /\ ~before.err
                    /\ a'.sections = before.ini.sections]_vars

C5_Witness ==
    /\ hist = "parsed" /\ ret.err
    /\ InLines = << <<"k", "=", "1">>, <<"b", "a", "d">>, <<"j", "=", "'", "1", "'">> >>
    /\ Stored(a, DefaultSection, KeyK, <<"1">>)
    /\ KeyJ \notin DOMAIN a.sections[DefaultSection]

RECURSIVE NotComments(_, _, _)
NotComments(lines, L, i) ==
    IF i > Len(lines) THEN <<>>
    ELSE (IF IsComment(L, i) THEN <<>> ELSE <<lines[i]>>) \o NotComments(lines, L, i + 1)

\* C6: a line whose first non-blank character is '#', or ';' with comment
\* skipping enabled, has no effect on the parse: the outcome is that of
\* parsing the text without these lines.  With comment skipping disabled a
\* line beginning with ';' is a key/value line: without the separator it
\* makes the Parse fail, and a successful Parse stores its key, ';'
\* included, in the section the line belongs to.
C6_CommentsSkipped ==
    [][hist = "new" /\ hist' = "parsed" =>
        LET lines == InLines
            L == Trimmed(lines)
            without == parseINI(a, Join(NotComments(lines, L, 1), inp.lineSep),
                                inp.lineSep, inp.kvSep)
        IN  /\ ret'.err = without.err
            /\ a'.sections = without.ini.sections
            /\ \A i \in 1..Len(L) :
                (~IsBlank(L, i) /\ Head(L[i]) = ";" /\ ~a.skipCommits) =>
                    /\ SepPositions(L[i], inp.kvSep) = {} => ret'.err
                    /\ (~ret'.err /\ ~HeaderRepeatedAfter(L, i)) =>
                          /\ IsPair(L, i)
                          /\ Head(PairKey(L, i)) = ";"
                          /\ SectionOf(L, i) \in DOMAIN a'.sections
                          /\ PairKey(L, i) \in DOMAIN a'.sections[SectionOf(L, i)]]_vars

C6_Witness ==
    /\ hist = "parsed" /\ ~ret.err /\ ~a.skipCommits
    /\ InLines = << <<" ", "#", "c", "=", "1">>, <<";", "c", "=", "1">>, <<"k", "=", "1">> >>
    /\ DOMAIN a.sections[DefaultSection] = {<<";", "c">>, KeyK}

(***************************************************************************)
(* SpecWrite: Write on every store of WriteStores, the stores that parse,  *)
(* SectionSet and Delete build from a new one.  A store no parse has run   *)
(* on has the separators of New; one a parse has run on has the default    *)
(* section, and the separators the parse was given.                        *)
(***************************************************************************)
WriteKeySet ==
    {KeyK, <<" ", "k">>, <<"#", "k">>, <<"[", "k">>, <<>>}

WriteValueSet ==
    {<<"1">>, <<"1", " ">>, <<"1", "]">>, <<>>}

WriteSeparators ==
    Separators \cup
    {[lineSep |-> DefaultLineSeparator, kvSep |-> <<" ">>],
     [lineSep |-> DefaultLineSeparator, kvSep |-> <<"#">>]}

SecT == <<"t">>

\* Stores of up to three sections, to have Write range over two headers.
WriteSectionStores ==
    StoresOver(SectionMaps(Sections \cup {SecT}, Keys, {Val42}, MaxPairs), Separators)

WriteStores ==
    {s \in StoresOver(SectionMaps(Sections, WriteKeySet, WriteValueSet, MaxPairs),
                      WriteSeparators) \cup WriteSectionStores :
        \/ HasDefault(s)
        \/ s.lineSep = DefaultLineSeparator /\ s.kvSep = DefaultKeyValueSeparator}

InitWrite ==
    /\ a \in WriteStores
    /\ b = New
    /\ ret = [op |-> "New"]
    /\ hist = "new"
    /\ inp = NoInput

\* lines 250-275: the text handed to the writer, or the writer's error
WriteOp ==
    /\ \/ \E out \in Write(a) : ret' = [op |-> "Write", err |-> FALSE, out |-> out]
       \/ ret' = [op |-> "Write", err |-> TRUE, out |-> <<>>]
    /\ UNCHANGED <<a, b, hist, inp>>

NextWrite == WriteOp

SpecWrite == InitWrite /\ [][NextWrite]_vars

Contains(s, sep) == SepPositions(s, sep) # {}

Pairs(ini) ==
    UNION {{<<sec, k>> : k \in DOMAIN ini.sections[sec]} : sec \in DOMAIN ini.sections}

\* No section name, key or value contains either separator.
SeparatorFree(ini) ==
    /\ \A sec \in DOMAIN ini.sections :
          ~Contains(sec, ini.kvSep) /\ ~Contains(sec, ini.lineSep)
    /\ \A p \in Pairs(ini) :
          /\ ~Contains(p[2], ini.kvSep) /\ ~Contains(p[2], ini.lineSep)
          /\ ~Contains(ini.sections[p[1]][p[2]], ini.kvSep)
          /\ ~Contains(ini.sections[p[1]][p[2]], ini.lineSep)

\* The store a newly constructed one becomes on parsing text with section
\* parsing enabled and the separators of ini.
ReadBack(ini, text) ==
    parseINI([New EXCEPT !.parseSection = TRUE], text, ini.lineSep, ini.kvSep)

\* C3 as stated: the text Write produces for a store whose names, keys and
\* values contain no separator parses, in a new store with the same
\* separators and section parsing enabled, to the sections and pairs of the
\* store written.
C3_RoundTrip ==
    (ret.op = "Write" /\ ~ret.err /\ SeparatorFree(a)) =>
        ReadBack(a, ret.out).ini.sections = a.sections

\* Each pair's line reads back as that pair: key and value carry no
\* surrounding whitespace, the line is neither a comment nor a header.
PairsReadBack(ini) ==
    \A p \in Pairs(ini) :
        LET k == p[2]
            v == ini.sections[p[1]][p[2]]
        IN  /\ TrimSpace(k) = k /\ TrimSpace(v) = v
            /\ k = <<>> \/ Head(k) # "#"
            /\ ~(k # <<>> /\ Head(k) = "[" /\ v # <<>> /\ v[Len(v)] = "]")

\* Single-character separators that differ, the key/value separator not
\* whitespace, '#' or a bracket, the line separator not a bracket.
PlainSeparators(ini) ==
    /\ Len(ini.kvSep) = 1 /\ Len(ini.lineSep) = 1
    /\ ini.kvSep # ini.lineSep
    /\ ~IsSpace(ini.kvSep[1])
    /\ ini.kvSep[1] \notin {"#", "[", "]"}
    /\ ini.lineSep[1] \notin {"[", "]"}

\* C3, amended: the round trip holds for a store that has the default
\* section, whose keys and values carry no surrounding whitespace, none of
\* whose pair lines is a comment or a header, under plain separators.
C3_RoundTripOfPlainStore ==
    (ret.op = "Write" /\ ~ret.err /\ SeparatorFree(a)
        /\ HasDefault(a) /\ PairsReadBack(a) /\ PlainSeparators(a)) =>
        /\ ~ReadBack(a, ret.out).err
        /\ ReadBack(a, ret.out).ini.sections = a.sections

C3_Witness ==
    /\ ret.op = "Write" /\ ~ret.err
    /\ SeparatorFree(a) /\ PairsReadBack(a) /\ PlainSeparators(a)
    /\ a.kvSep = <<":">>
    /\ DOMAIN a.sections = Sections
    /\ DOMAIN a.sections[DefaultSection] = {<<"[", "k">>}
    /\ DOMAIN a.sections[SecS] = {<<>>}
    /\ ret.out = <<"[", "k", ":", "1", "|", "[", "s", "]", "|", ":", "1", "]", "|">>

(***************************************************************************)
(* SpecDiff: DiffINI on two stores a and b of DiffStores, in either order  *)
(* and on one store twice; two new stores may first parse the same text or *)
(* the same file.                                                          *)
(***************************************************************************)
DiffStores ==
    StoresOver(SectionMaps(Sections, Keys, Values, MaxPairs),
               {[lineSep |-> DefaultLineSeparator, kvSep |-> DefaultKeyValueSeparator]})

InitDiff ==
    /\ a \in DiffStores
    /\ b \in DiffStores
    /\ ret = [op |-> "New"]
    /\ hist = "new"
    /\ inp = NoInput

\* lines 61-63, called on a and on b with the same arguments, both new
ParseSame ==
    /\ a = New /\ b = New
    /\ \E arg \in ParseArgs :
        /\ a' = parseINI(a, arg.data, arg.lineSep, arg.kvSep).ini
        /\ b' = parseINI(b, arg.data, arg.lineSep, arg.kvSep).ini
        /\ ret' = [op |-> "Parse", err |-> parseINI(a, arg.data, arg.lineSep, arg.kvSep).err,
                   io |-> FALSE]
    /\ hist' = "parsed"
    /\ UNCHANGED inp

\* lines 49-57, called on a and on b for the same file, both new
ParseFileSame ==
    /\ a = New /\ b = New
    /\ \E data \in FileTexts :
        LET ra == parseINI([a EXCEPT !.parseSection = TRUE, !.skipCommits = TRUE],
                           data, DefaultLineSeparator, DefaultKeyValueSeparator)
            rb == parseINI([b EXCEPT !.parseSection = TRUE, !.skipCommits = TRUE],
                           data, DefaultLineSeparator, DefaultKeyValueSeparator)
        IN  /\ a' = ra.ini
            /\ b' = rb.ini
            /\ ret' = [op |-> "ParseFile", err |-> ra.err, io |-> FALSE]
    /\ hist' = "parsed"
    /\ UNCHANGED inp

StoreOf(name) == IF name = "a" THEN a ELSE b

\* lines 368-438, on any two of the stores
DiffINIOp ==
    /\ \E x, y \in {"a", "b"} :
        \E r \in DiffINI(StoreOf(x), StoreOf(y)) :
            ret' = [op |-> "DiffINI", x |-> x, y |-> y, results |-> r]
    /\ UNCHANGED <<a, b, hist, inp>>

NextDiff == ParseSame \/ ParseFileSame \/ DiffINIOp

SpecDiff == InitDiff /\ [][NextDiff]_vars

\* The records of a list, each with the number of times it occurs.
BagOf(list) ==
    [r \in {list[i] : i \in 1..Len(list)} |-> Cardinality({i \in 1..Len(list) : list[i] = r})]

InBoth(x, y) == DOMAIN x.sections \cap DOMAIN y.sections

\* The records DiffINI(x, y) is to return, each once.
Discrepancies(x, y) ==
    {DiffResult(DIFF_SECTION_ONLY_IN_A, sec, <<>>, <<>>, <<>>) :
        sec \in DOMAIN x.sections \ DOMAIN y.sections}
    \cup
    {DiffResult(DIFF_KEY_ONLY_IN_A, p[1], p[2], x.sections[p[1]][p[2]], <<>>) :
        p \in {q \in Pairs(x) : q[1] \in InBoth(x, y) /\ q[2] \notin DOMAIN y.sections[q[1]]}}
    \cup
    {DiffResult(DIFF_VALUES_DIFFER, p[1], p[2], x.sections[p[1]][p[2]], y.sections[p[1]][p[2]]) :
        p \in {q \in Pairs(x) : /\ q[1] \in InBoth(x, y)
                                /\ q[2] \in DOMAIN y.sections[q[1]]
                                /\ x.sections[q[1]][q[2]] # y.sections[q[1]][q[2]]}}
    \cup
    {DiffResult(DIFF_SECTION_ONLY_IN_B, sec, <<>>, <<>>, <<>>) :
        sec \in DOMAIN y.sections \ DOMAIN x.sections}
    \cup
    {DiffResult(DIFF_KEY_ONLY_IN_B, p[1], p[2], <<>>, y.sections[p[1]][p[2]]) :
        p \in {q \in Pairs(y) : q[1] \in InBoth(x, y) /\ q[2] \notin DOMAIN x.sections[q[1]]}}

\* C7: the list DiffINI returns holds exactly the discrepancy records of its
\* two arguments, each of them once.
C7_ExactRecords ==
    ret.op = "DiffINI" =>
        BagOf(ret.results) = SetToBag(Discrepancies(StoreOf(ret.x), StoreOf(ret.y)))

C7_Witness ==
    /\ ret.op = "DiffINI" /\ ret.x = "a" /\ ret.y = "b"
    /\ Len(ret.results) = 3
    /\ {ret.results[i].State : i \in 1..3} =
           {DIFF_SECTION_ONLY_IN_A, DIFF_VALUES_DIFFER, DIFF_KEY_ONLY_IN_B}

\* C8: DiffINI of a store with itself returns the empty list, and so does
\* DiffINI of two stores with the same sections and pairs, as two new stores
\* that have parsed the same text are.
C8_SameStoresNoRecords ==
    ret.op = "DiffINI" =>
        /\ ret.x = ret.y => ret.results = <<>>
        /\ hist = "parsed" => a.sections = b.sections /\ ret.results = <<>>
        /\ a.sections = b.sections => ret.results = <<>>

C8_Witness ==
    /\ hist = "parsed"
    /\ ret.op = "DiffINI" /\ ret.x = "a" /\ ret.y = "b"
    /\ Pairs(a) # {} /\ SecS \in DOMAIN b.sections
    /\ ret.results = <<>>

SwapState(state) ==
    CASE state = DIFF_SECTION_ONLY_IN_A -> DIFF_SECTION_ONLY_IN_B
      [] state = DIFF_SECTION_ONLY_IN_B -> DIFF_SECTION_ONLY_IN_A
      [] state = DIFF_KEY_ONLY_IN_A -> DIFF_KEY_ONLY_IN_B
      [] state = DIFF_KEY_ONLY_IN_B -> DIFF_KEY_ONLY_IN_A
      [] OTHER -> state

Swapped(list) ==
    [i \in 1..Len(list) |->
        DiffResult(SwapState(list[i].State), list[i].Section, list[i].Key,
                   list[i].BVal, list[i].AVal)]

SectionKeys(list) == BagOf([i \in 1..Len(list) |-> <<list[i].Section, list[i].Key>>])

\* C9: every list DiffINI(y, x) can return holds the records of the list
\* DiffINI(x, y) returned with the A and B labels and values exchanged, the
\* same number of records for the same section and key.
C9_SwappedLabels ==
    ret.op = "DiffINI" =>
        \A back \in DiffINI(StoreOf(ret.y), StoreOf(ret.x)) :
            /\ BagOf(back) = BagOf(Swapped(ret.results))
            /\ Len(back) = Len(ret.results)
            /\ SectionKeys(back) = SectionKeys(ret.results)

C9_Witness ==
    /\ ret.op = "DiffINI" /\ ret.x = "b" /\ ret.y = "a"
    /\ Len(ret.results) = 3
    /\ {ret.results[i].State : i \in 1..3} =
           {DIFF_KEY_ONLY_IN_A, DIFF_VALUES_DIFFER, DIFF_SECTION_ONLY_IN_B}
    /\ \E i \in 1..3 : ret.results[i].AVal = Val42 /\ ret.results[i].BVal = ValAbc

(***************************************************************************)
(* Further properties of the store life-cycle, Spec.                       *)
(***************************************************************************)
\* C11: after Reset the store has no section, so that GetAll is empty and
\* Get, SectionGet and GetKvmap find nothing, and the separators and the
\* three flags are those the store had before the call.
C11_ResetDropsSectionsOnly ==
    [][ret'.op = "Reset" =>
        /\ GetAll(a') = EmptySectionMap
        /\ \A section \in Sections :
              /\ ~GetKvmap(a', section).ok
              /\ \A key \in Keys : ~SectionGet(a', section, key).ok /\ ~Get(a', key).ok
        /\ a'.lineSep = a.lineSep /\ a'.kvSep = a.kvSep
        /\ a'.parseSection = a.parseSection
        /\ a'.skipCommits = a.skipCommits
        /\ a'.trimQuotes = a.trimQuotes]_vars

C11_Witness ==
    /\ ret.op = "Reset" /\ hist = "reset"
    /\ a.sections = EmptySectionMap
    /\ a.lineSep = <<"|">> /\ a.kvSep = <<":">>
    /\ a.parseSection /\ ~a.skipCommits /\ a.trimQuotes

\* C12: after SectionSet(s, k, v), or Set(k, v) with s the default section,
\* SectionGet(s, k) returns (v, true) whatever it returned before, section s
\* exists, and every other section and every other key is found, or not
\* found, with the value it had before the call.
C12_SetIsLocal ==
    [][ret'.op \in {"SectionSet", "Set"} =>
        /\ ret'.op = "Set" => ret'.section = DefaultSection
        /\ SectionGet(a', ret'.section, ret'.key) = [value |-> ret'.value, ok |-> TRUE]
        /\ GetKvmap(a', ret'.section).ok
        /\ \A section \in Sections :
              /\ section # ret'.section => GetKvmap(a', section) = GetKvmap(a, section)
              /\ \A key \in Keys :
                    <<section, key>> # <<ret'.section, ret'.key>> =>
                        SectionGet(a', section, key) = SectionGet(a, section, key)
        /\ DOMAIN a'.sections = DOMAIN a.sections \cup {ret'.section}
        /\ DOMAIN a'.sections[ret'.section] =
              {ret'.key} \cup (IF ret'.section \in DOMAIN a.sections
                               THEN DOMAIN a.sections[ret'.section] ELSE {})]_vars

C12_Witness ==
    /\ ret.op = "SectionSet" /\ ret.section = SecS /\ ret.key = KeyK /\ ret.value = ValAbc
    /\ hist = "parsed"
    /\ a.sections = (DefaultSection :> (KeyK :> Val42)) @@ (SecS :> (KeyK :> ValAbc @@ KeyJ :> Val42))

(***************************************************************************)
(* Further properties of Write, SpecWrite.                                 *)
(***************************************************************************)
\* The lines of a written text: what stands before each line separator.
OutLines(ini, out) ==
    LET parts == Split(out, ini.lineSep) IN SubSeq(parts, 1, Len(parts) - 1)

PairLine(ini, section, key) == key \o ini.kvSep \o ini.sections[section][key]

HeaderLine(section) == <<"[">> \o section \o <<"]">>

\* The pair lines of a section, each with the number of pairs it stands for.
PairLineBag(ini, section) ==
    LET keys == CHOOSE order \in Orders(DOMAIN ini.sections[section]) : TRUE
    IN  BagOf([i \in 1..Len(keys) |-> PairLine(ini, section, keys[i])])

DefaultPairs(ini) ==
    IF HasDefault(ini) THEN Cardinality(DOMAIN ini.sections[DefaultSection]) ELSE 0

NamedSections(ini) == DOMAIN ini.sections \ {DefaultSection}

HeaderAt(L, section) == {i \in 1..Len(L) : L[i] = HeaderLine(section)}

HeaderOf(L, section) == CHOOSE i \in HeaderAt(L, section) : TRUE

PairCount(ini, section) == Cardinality(DOMAIN ini.sections[section])

\* C13: the written text is the pair lines of the default section, each
\* once and with no header, then for every other section one header line
\* followed at once by that section's pair lines, each once; nothing else
\* is written, and no header of one section stands among the lines of
\* another.
C13_WriteOrder ==
    (ret.op = "Write" /\ ~ret.err) =>
        LET L == OutLines(a, ret.out)
            n0 == DefaultPairs(a)
        IN  /\ ret.out # <<>> =>
                  SubSeq(ret.out, Len(ret.out) - Len(a.lineSep) + 1, Len(ret.out)) = a.lineSep
            /\ Len(L) = Cardinality(Pairs(a)) + Cardinality(NamedSections(a))
            /\ n0 > 0 => BagOf(SubSeq(L, 1, n0)) = PairLineBag(a, DefaultSection)
            /\ HeaderAt(L, DefaultSection) = {}
            /\ \A section \in NamedSections(a) :
                  LET h == HeaderOf(L, section)
                      m == PairCount(a, section)
                  IN  /\ Cardinality(HeaderAt(L, section)) = 1
                      /\ h > n0 /\ h + m <= Len(L)
                      /\ m > 0 => BagOf(SubSeq(L, h + 1, h + m)) = PairLineBag(a, section)
                      /\ \A other \in NamedSections(a) \ {section} :
                            \A g \in HeaderAt(L, other) : g < h \/ g > h + m

C13_Witness ==
    /\ ret.op = "Write" /\ ~ret.err
    /\ DOMAIN a.sections = {DefaultSection, SecS, SecT}
    /\ ret.out = <<"k", "=", "4", "2", "\n", "[", "t", "]", "\n",
                   "[", "s", "]", "\n", "j", "=", "4", "2", "\n">>

\* What a parse of data leaves of the store ini when both section parsing
\* and comment skipping are enabled and the separators are the default ones.
FileParse(ini, data) ==
    parseINI([ini EXCEPT !.parseSection = TRUE, !.skipCommits = TRUE],
             data, DefaultLineSeparator, DefaultKeyValueSeparator)

\* C14: a ParseFile call that cannot read its file returns the error and
\* leaves the store as it was; one that reads it leaves the sections, and
\* returns the error, of a parse of the file's content with section parsing
\* and comment skipping enabled and the default separators, whatever flags
\* and separators the store had, and leaves both flags enabled and the
\* default separators in the store.
C14_ParseFileForcesFlags ==
    [][ret'.op = "ParseFile" =>
        IF ret'.io
        THEN ret'.err /\ a' = a /\ hist' = hist
        ELSE /\ a'.parseSection /\ a'.skipCommits
             /\ a'.lineSep = DefaultLineSeparator
             /\ a'.kvSep = DefaultKeyValueSeparator
             /\ a'.trimQuotes = a.trimQuotes
             /\ \E data \in FileTexts :
                   /\ a'.sections = FileParse(a, data).ini.sections
                   /\ ret'.err = FileParse(a, data).err
             /\ ret'.err => Stored(a', DefaultSection, KeyK, Val42)]_vars

C14_Witness ==
    /\ ret.op = "ParseFile" /\ ~ret.io /\ ~ret.err
    /\ a.trimQuotes
    /\ a.sections = (DefaultSection :> EmptyKvmap) @@ (SecS :> (KeyK :> Val42))

(***************************************************************************)
(* SpecAlias: GetAll and GetKvmap on every store of ReadStores, and a      *)
(* caller that assigns to and deletes from the map it was handed.  A Go    *)
(* map is a reference: GetAll returns ini.sections itself and GetKvmap the *)
(* section's own map, so the map the caller changes is the store's.        *)
(***************************************************************************)
\* lines 180-182
GetAllOp ==
    /\ ret' = [op |-> "GetAll", all |-> GetAll(a)]
    /\ UNCHANGED <<a, b, hist, inp>>

\* lines 180-182, then m[section] = Kvmap{key: value} on the map m returned
CallerSetsSection ==
    /\ ret.op = "GetAll"
    /\ \E section \in Sections, key \in Keys, value \in Values :
          /\ a' = [a EXCEPT !.sections = SecPut(ret.all, section, KvPut(EmptyKvmap, key, value))]
          /\ ret' = [ret EXCEPT !.all = a'.sections]
    /\ UNCHANGED <<b, hist, inp>>

\* lines 180-182, then delete(m, section) on the map m returned
CallerDeletesSection ==
    /\ ret.op = "GetAll"
    /\ \E section \in DOMAIN ret.all :
          /\ a' = [a EXCEPT !.sections = [x \in (DOMAIN ret.all) \ {section} |-> ret.all[x]]]
          /\ ret' = [ret EXCEPT !.all = a'.sections]
    /\ UNCHANGED <<b, hist, inp>>

\* lines 174-177, then kvmap[key] = value on the map kvmap returned
CallerSetsKey ==
    /\ ret.op = "GetKvmap" /\ ret.ok
    /\ \E key \in Keys, value \in Values :
          /\ a' = [a EXCEPT !.sections = SecPut(@, ret.section, KvPut(ret.kvmap, key, value))]
          /\ ret' = [ret EXCEPT !.kvmap = a'.sections[ret.section]]
    /\ UNCHANGED <<b, hist, inp>>

\* lines 174-177, then delete(kvmap, key) on the map kvmap returned
CallerDeletesKey ==
    /\ ret.op = "GetKvmap" /\ ret.ok
    /\ \E key \in DOMAIN ret.kvmap :
          /\ a' = [a EXCEPT !.sections = SecPut(@, ret.section, KvDelete(ret.kvmap, key))]
          /\ ret' = [ret EXCEPT !.kvmap = a'.sections[ret.section]]
    /\ UNCHANGED <<b, hist, inp>>

NextAlias ==
    \/ GetAllOp
    \/ GetKvmapOp
    \/ CallerSetsSection
    \/ CallerDeletesSection
    \/ CallerSetsKey
    \/ CallerDeletesKey

SpecAlias == InitRead /\ [][NextAlias]_vars

\* C15 as stated: whatever the caller assigns to or deletes from the map
\* GetAll or GetKvmap returned, SectionGet and GetKvmap on the store find
\* what they found before, and Write and DiffINI are given the same store.
C15_ReturnedMapIsACopy ==
    [][/\ \A section \in Sections :
            /\ GetKvmap(a', section) = GetKvmap(a, section)
            /\ \A key \in Keys : SectionGet(a', section, key) = SectionGet(a, section, key)
       /\ Write(a') = Write(a)
       /\ DiffINI(a', b) = DiffINI(a, b)]_vars

(***************************************************************************)
(* Further properties of Parse, SpecParse.                                 *)
(***************************************************************************)
\* The value Parse stores for the pair of line i.
StoredValue(L, i) ==
    IF a.trimQuotes THEN Trim(PairValue(L, i), QuoteChars) ELSE PairValue(L, i)

HeaderLines(L) == {h \in 1..Len(L) : IsHeader(L, h)}

LastHeaderNamed(L, name) ==
    CHOOSE h \in HeaderLines(L) :
        /\ HeaderName(L, h) = name
        /\ \A g \in HeaderLines(L) : HeaderName(L, g) = name => g <= h

\* The key/value lines after line h that belong to the section named name.
PairsAfter(L, h, name) == {i \in PairLines(L) : i > h /\ SectionOf(L, i) = name}

\* The mapping these lines make, the last line of a key giving its value.
MappingOf(L, lines) ==
    [key \in {PairKey(L, i) : i \in lines} |->
        StoredValue(L, CHOOSE i \in lines :
                          /\ PairKey(L, i) = key
                          /\ \A j \in lines : PairKey(L, j) = key => j <= i)]

\* C16: after a successful Parse with section parsing enabled, a section
\* named by a header holds the pairs of the key/value lines that follow the
\* last header of that name, up to the next header, and nothing else: not
\* the pairs that followed an earlier header of that name, nor, for "[]",
\* those that stood before any header.
C16_LastHeaderWins ==
    [][ParsedOk /\ a.parseSection =>
        LET L == Trimmed(InLines)
        IN  \A name \in {HeaderName(L, h) : h \in HeaderLines(L)} :
                /\ name \in DOMAIN a'.sections
                /\ a'.sections[name] =
                      MappingOf(L, PairsAfter(L, LastHeaderNamed(L, name), name))]_vars

C16_Witness ==
    /\ hist = "parsed" /\ ~ret.err /\ a.parseSection /\ ~a.trimQuotes
    /\ InLines = << <<"k", "=", "1">>, <<"[", "]">>, <<"j", "=", "'", "1", "'">> >>
    /\ a.sections[DefaultSection] = (KeyJ :> <<"'", "1", "'">>)

\* The lines Parse gets to: all of them, or those before the first line that
\* is neither blank, comment nor header and lacks the separator.
LinesReached(L) ==
    IF MalformedLines(L) = {} THEN 1..Len(L) ELSE 1..(FirstMalformed(L) - 1)

IsBracketed(L, i) == ~IsBlank(L, i) /\ Head(L[i]) = "[" /\ L[i][Len(L[i])] = "]"

\* C17: a Parse with section parsing disabled leaves every section but the
\* default one as it was and creates none; the default section holds the
\* pairs of all the key/value lines Parse gets to, and of nothing else; a
\* bracket-delimited line is one of them, its key beginning with '[', when
\* it contains the separator, and makes the Parse fail when it does not.
C17_NoSectionsWhenDisabled ==
    [][(hist = "new" /\ hist' = "parsed" /\ ~a.parseSection) =>
        LET L == Trimmed(InLines)
        IN  /\ DOMAIN a'.sections = DOMAIN a.sections \cup {DefaultSection}
            /\ \A name \in DOMAIN a.sections \ {DefaultSection} :
                  a'.sections[name] = a.sections[name]
            /\ a'.sections[DefaultSection] = MappingOf(L, PairLines(L) \cap LinesReached(L))
            /\ \A i \in 1..Len(L) :
                  IsBracketed(L, i) =>
                      IF SepPositions(L[i], inp.kvSep) = {}
                      THEN ret'.err
                      ELSE i \in LinesReached(L) =>
                              /\ Head(PairKey(L, i)) = "["
                              /\ PairKey(L, i) \in DOMAIN a'.sections[DefaultSection]]_vars

C17_Witness ==
    /\ hist = "parsed" /\ ~ret.err /\ ~a.parseSection
    /\ InLines = << <<"[", "k", "=", "1", "]">>, <<"k", "=", "1">> >>
    /\ a.sections = (DefaultSection :> ((<<"[", "k">> :> <<"1", "]">>) @@ (KeyK :> <<"1">>)))
                    @@ (SecS :> (KeyJ :> Val9))

\* C18: after a Parse, failed or not, the default section holds only pairs
\* of key/value lines of the input, so that a key it held before is found
\* only if the input defines it; a section other than the default one that
\* no header Parse gets to names holds the pairs it held before.
C18_DefaultSectionStartsEmpty ==
    [][(hist = "new" /\ hist' = "parsed") =>
        LET L == Trimmed(InLines)
            reached == LinesReached(L)
        IN  /\ HasDefault(a')
            /\ \A key \in DOMAIN a'.sections[DefaultSection] :
                  \E i \in PairLines(L) \cap reached :
                      /\ SectionOf(L, i) = DefaultSection
                      /\ PairKey(L, i) = key
                      /\ a'.sections[DefaultSection][key] = StoredValue(L, i)
            /\ (PairLines(L) \cap reached = {}) =>
                  \A key \in Keys : ~Get(a', key).ok
            /\ \A name \in DOMAIN a.sections \ {DefaultSection} :
                  name \notin {HeaderName(L, h) : h \in HeaderLines(L) \cap reached} =>
                      /\ name \in DOMAIN a'.sections
                      /\ a'.sections[name] = a.sections[name]]_vars

C18_Witness ==
    /\ hist = "parsed" /\ ret.err
    /\ InLines = << <<"[", "]">>, <<"b", "a", "d">>, <<"[", "s", "]">> >>
    /\ a.sections = (DefaultSection :> EmptyKvmap) @@ (SecS :> (KeyJ :> Val9))

(***************************************************************************)
(* Further properties of DiffINI, SpecDiff.                                *)
(***************************************************************************)
\* C19: DiffINI returns the empty list exactly when its two stores have the
\* same section names and, section by section, the same pairs; no two of
\* its records have the same kind, section and key; and a store whose only
\* section is an empty default one, as a parse of the empty text leaves a
\* new store, against a new store gives the one record that the default
\* section is in the first only.
C19_EmptyIffEqual ==
    ret.op = "DiffINI" =>
        LET x == StoreOf(ret.x)
            y == StoreOf(ret.y)
        IN  /\ ret.results = <<>> <=> x.sections = y.sections
            /\ \A i, j \in 1..Len(ret.results) :
                  (/\ ret.results[i].State = ret.results[j].State
                   /\ ret.results[i].Section = ret.results[j].Section
                   /\ ret.results[i].Key = ret.results[j].Key) => i = j
            /\ (x.sections = parseINI(New, <<>>, DefaultLineSeparator,
                                      DefaultKeyValueSeparator).ini.sections
                /\ y.sections = New.sections) =>
                  ret.results =
                      <<DiffResult(DIFF_SECTION_ONLY_IN_A, DefaultSection, <<>>, <<>>, <<>>)>>

C19_Witness ==
    /\ ret.op = "DiffINI" /\ ret.x = "a" /\ ret.y = "b"
    /\ a.sections = (DefaultSection :> EmptyKvmap)
    /\ b = New
    /\ Len(ret.results) = 1
    /\ ret.results[1].State = DIFF_SECTION_ONLY_IN_A

(***************************************************************************)
(* C20, on the store life-cycle, Spec.                                     *)
(***************************************************************************)
ParseOps == {"Parse", "ParseFrom", "ParseFile"}

\* The parse call of this step ran parseINI.
Parsed == ret'.op \in ParseOps /\ ~ret'.io

\* Every text Write can produce for ini is made of the header lines and the
\* pair lines of ini, with ini's two separators.
WritesWithOwnSeparators(ini) ==
    \A out \in Write(ini) :
        LET L == OutLines(ini, out) IN
        /\ Len(L) = Cardinality(Pairs(ini)) + Cardinality(NamedSections(ini))
        /\ \A i \in 1..Len(L) :
              \/ \E section \in NamedSections(ini) : L[i] = HeaderLine(section)
              \/ \E p \in Pairs(ini) : L[i] = PairLine(ini, p[1], p[2])

\* C20: a ParseFile that read its file leaves section parsing and comment
\* skipping enabled, and no step but the flag's own setter changes either
\* flag afterwards, Reset and later parses included; every parse call that
\* runs, failed or not, leaves its own two separators in the store, no other
\* step changes them, and Write writes with the separators of the store.
C20_ConfigurationPersists ==
    /\ [][/\ (ret'.op = "ParseFile" /\ ~ret'.io) => a'.parseSection /\ a'.skipCommits
          /\ a'.parseSection # a.parseSection =>
                \/ ret'.op = "SetParseSection"
                \/ ret'.op = "ParseFile" /\ ~ret'.io
          /\ a'.skipCommits # a.skipCommits =>
                \/ ret'.op = "SetSkipCommits"
                \/ ret'.op = "ParseFile" /\ ~ret'.io
          /\ (Parsed /\ ret'.op # "ParseFile") =>
                a'.lineSep = ret'.lineSep /\ a'.kvSep = ret'.kvSep
          /\ (Parsed /\ ret'.op = "ParseFile") =>
                a'.lineSep = DefaultLineSeparator /\ a'.kvSep = DefaultKeyValueSeparator
          /\ (a'.lineSep # a.lineSep \/ a'.kvSep # a.kvSep) => Parsed]_vars
    /\ [](WritesWithOwnSeparators(a))

C20_Witness ==
    /\ ret.op = "Parse" /\ ret.err
    /\ ret.lineSep = <<"|">> /\ a.lineSep = <<"|">> /\ a.kvSep = <<":">>
    /\ a.parseSection /\ a.skipCommits
    /\ Write(a) = {<<"k", ":", "4", "2", "|">>}

====
